---- MODULE Spec2Model ----
(***************************************************************************)
(* Shift scheduler: the application controller (App.tsx), the per-row edit *)
(* state of ShiftStrip.tsx, the create dialog of ControlPanel.tsx and the  *)
(* persistence store with its localStorage fallback (database.ts).         *)
(*                                                                         *)
(* Time is counted in whole hours (3600000 ms); a duration is a number of  *)
(* hours.  An async handler is split at its awaits: a call that goes to    *)
(* IndexedDB suspends the handler until a later task (ResolveCall), a call *)
(* that goes to localStorage completes in the same task.                   *)
(***************************************************************************)
EXTENDS Integers, Sequences, FiniteSets, TLC

\* ---- bounds of the model ----
MaxShifts   == 3   \* ids handed out by uuidv4 in one behaviour
MaxTime     == 1   \* last instant the clock reaches
MaxStart    == 0   \* largest start time the create dialog and onMove submit
MaxDur      == 1   \* largest duration (hours) the create dialog submits
MaxEnd      == 3   \* largest end time a recalculation may produce
MaxInFlight == 2   \* handlers suspended on an IndexedDB request at once
FewShifts   == 2   \* ids handed out where the specification tracks more per shift
Period      == 2   \* parts the one second of the sweep's interval is divided into

Statuses == {"scheduled", "active", "onHold", "terminated", "completed"}
Texts    == {"a", "b"}
Ids      == 1..MaxShifts

\* The value the code holds where no shift is meant (a call without a record).
NoShift ==
  [id |-> 0, particulars |-> "", startTime |-> 0, endTime |-> 0,
   notes |-> "", status |-> "scheduled", duration |-> 0]

VARIABLES
  shifts,       \* App: useState<Shift[]>
  isLoading,    \* App: useState(true)
  error,        \* App: useState<string | null>: "none" or the message
  mounted,      \* App: the component is mounted (load effect's flag, interval alive)
  editedShift,  \* ShiftStrip: useState(shift), one per rendered row, keyed by id
  isEditing,    \* ShiftStrip: useState(false), one per rendered row
  idb,          \* IndexedDB object store 'shifts': id -> record
  ls,           \* localStorage['shift-scheduler-data'] as a list of records
  dbState,      \* DatabaseService.initPromise/db: "pending", "open" or "failed"
  useFallback,  \* DatabaseService.useFallback
  ops,          \* handlers suspended at an await on an IndexedDB request
  now,          \* the wall clock (new Date())
  nextId,       \* the next id uuidv4 returns
  outcome,      \* what the last call made on dbService from outside App settled to
  elapsed       \* parts of its second the sweep's interval has run since it was set

vars == <<shifts, isLoading, error, mounted, editedShift, isEditing,
          idb, ls, dbState, useFallback, ops, now, nextId, outcome, elapsed>>

\* ---- sequences ----
RECURSIVE findIndex(_, _, _)
\* Array.prototype.findIndex on id, 1-based; 0 when absent (the code's -1).
findIndex(seq, id, i) ==
  IF i > Len(seq) THEN 0
  ELSE IF seq[i].id = id THEN i
  ELSE findIndex(seq, id, i + 1)

IdsOf(seq) == {seq[i].id : i \in 1..Len(seq)}

find(seq, id) == seq[findIndex(seq, id, 1)]

filterOut(seq, id) == SelectSeq(seq, LAMBDA s : s.id # id)

\* splice(i, 1): the list without its i-th element
spliceOut(seq, i) == SubSeq(seq, 1, i - 1) \o SubSeq(seq, i + 1, Len(seq))

\* splice(i, 0, x): x inserted so that it sits at position i
spliceIn(seq, i, x) == SubSeq(seq, 1, i - 1) \o <<x>> \o SubSeq(seq, i, Len(seq))

\* ---- database.ts: the two stores ----
\* A persistence call: m is "add", "put", "delete" or "getAll"; s carries the
\* record (for "delete" only its id is read).
Call(m, s) == [m |-> m, s |-> s]

RECURSIVE sortedFrom(_, _)
\* IDBObjectStore.getAll: the records in ascending key order
sortedFrom(f, i) ==
  IF i > MaxShifts THEN <<>>
  ELSE IF i \in DOMAIN f THEN <<f[i]>> \o sortedFrom(f, i + 1)
  ELSE sortedFrom(f, i + 1)

idbGetAll(f) == sortedFrom(f, 1)

idbPut(f, s) == [k \in (DOMAIN f) \cup {s.id} |-> IF k = s.id THEN s ELSE f[k]]

\* A delete that clears the store when the key is absent.
idbDeleteOrClear(f, id) == IF id \in DOMAIN f THEN [k \in (DOMAIN f) \ {id} |-> f[k]] ELSE <<>>

\* db.delete('shifts', id)
idbDelete(f, id) == [k \in (DOMAIN f) \ {id} |-> f[k]]

\* The methods that return records: "get" is getShiftById (s carries the id),
\* "byStatus" getShiftsByStatus (s carries the status), "byRange"
\* getShiftsByDateRange (s carries startDate and endDate as its two times).
reads == {"getAll", "get", "byStatus", "byRange"}

\* One request against IndexedDB (the try branch of a DatabaseService method).
\* fails: the request is rejected (ensureDB throws, the transaction aborts).
\* add rejects by itself when the key exists (ConstraintError).
PrimaryCall(call, f, fails) ==
  IF fails \/ (call.m = "add" /\ call.s.id \in DOMAIN f)
  THEN [idb |-> f, ok |-> FALSE, val |-> <<>>]
  ELSE CASE call.m = "add"    -> [idb |-> idbPut(f, call.s), ok |-> TRUE, val |-> <<>>]
         [] call.m = "put"    -> [idb |-> idbPut(f, call.s), ok |-> TRUE, val |-> <<>>]
         [] call.m = "delete" -> [idb |-> idbDelete(f, call.s.id), ok |-> TRUE, val |-> <<>>]
         [] call.m = "getAll" -> [idb |-> f, ok |-> TRUE, val |-> idbGetAll(f)]
         [] call.m = "get"    ->
              [idb |-> f, ok |-> TRUE,
               val |-> SelectSeq(idbGetAll(f), LAMBDA s : s.id = call.s.id)]
         [] call.m = "byStatus" ->
              [idb |-> f, ok |-> TRUE,
               val |-> SelectSeq(idbGetAll(f), LAMBDA s : s.status = call.s.status)]
         [] call.m = "byRange" ->
              [idb |-> f, ok |-> TRUE,
               val |-> SelectSeq(idbGetAll(f), LAMBDA s :
                         s.startTime >= call.s.startTime /\ s.startTime <= call.s.endTime)]

\* A primary failure reaches the method's catch block when it is thrown by an
\* awaited expression: ensureDB (initialization failed) in every method, the
\* request itself in createShift, updateShift and deleteShift.  The methods
\* that return records return the request's promise without awaiting it, so
\* its rejection goes to the caller.
caught(call, dbst) == dbst = "failed" \/ call.m \notin reads

\* JSON.stringify writes a Date as its ISO string and JSON.parse reads it back
\* as that string: the string of instant t is the number IsoString + t.
IsoString == 1000

toISOString(t) == IF t >= IsoString THEN t ELSE IsoString + t

\* new Date(x) of a Date or of an ISO string
newDate(x) == IF x >= IsoString THEN x - IsoString ELSE x

\* JSON.parse(JSON.stringify(shift))
parsed(shift) ==
  [shift EXCEPT !.startTime = toISOString(@), !.endTime = toISOString(@)]

parsedAll(seq) == [i \in 1..Len(seq) |-> parsed(seq[i])]

\* LocalStorageFallback.getAllShifts: a failing read is logged and read as [].
\* ls holds the records the stored text denotes; what a caller receives is
\* their parsed form.
fallbackGetAllShifts(lsv, readFails) == IF readFails THEN <<>> ELSE lsv

\* One method of LocalStorageFallback.  readFails: getItem/JSON.parse throws;
\* writeFails: setItem throws.
FallbackCall(call, lsv, readFails, writeFails) ==
  LET cur == fallbackGetAllShifts(lsv, readFails)
      idx == findIndex(cur, call.s.id, 1)
      wr(new) == IF writeFails THEN [ls |-> lsv, ok |-> FALSE, val |-> <<>>]
                 ELSE [ls |-> new, ok |-> TRUE, val |-> <<>>]
  IN CASE call.m = "add"    -> wr(Append(cur, call.s))
       [] call.m = "put"    -> IF idx # 0 THEN wr([cur EXCEPT ![idx] = call.s])
                               ELSE [ls |-> lsv, ok |-> TRUE, val |-> <<>>]
       [] call.m = "delete" -> wr(filterOut(cur, call.s.id))
       [] call.m = "getAll" -> [ls |-> lsv, ok |-> TRUE, val |-> parsedAll(cur)]
       [] call.m = "get"    ->
            [ls |-> lsv, ok |-> TRUE,
             val |-> IF idx # 0 THEN <<parsed(cur[idx])>> ELSE <<>>]
       [] call.m = "byStatus" ->
            [ls |-> lsv, ok |-> TRUE,
             val |-> parsedAll(SelectSeq(cur, LAMBDA s : s.status = call.s.status))]
       [] call.m = "byRange" ->
            [ls |-> lsv, ok |-> TRUE,
             val |-> parsedAll(SelectSeq(cur, LAMBDA s :
                       /\ newDate(s.startTime) >= call.s.startTime
                       /\ newDate(s.startTime) <= call.s.endTime))]

RECURSIVE RunFallback(_, _, _, _, _)
\* The rest of a handler's calls once useFallback is set: they run back to back
\* in the same task.  The i-th of them throws on read/write when i = readAt/writeAt.
\* ok is FALSE when one raised.
RunFallback(todo, lsv, readAt, writeAt, i) ==
  IF todo = <<>> THEN [ls |-> lsv, ok |-> TRUE, val |-> <<>>]
  ELSE LET r == FallbackCall(Head(todo), lsv, readAt = i, writeAt = i)
       IN IF ~r.ok THEN [ls |-> r.ls, ok |-> FALSE, val |-> <<>>]
          ELSE IF Len(todo) = 1
               THEN [ls |-> r.ls, ok |-> TRUE, val |-> r.val]
               ELSE RunFallback(Tail(todo), r.ls, readAt, writeAt, i + 1)

\* The ids of the records in the store that serves calls when useFallback is fb.
storedIds(idbv, lsv, fb) == IF fb THEN IdsOf(lsv) ELSE DOMAIN idbv

\* A service that tries IndexedDB first whatever useFallback says.
serviceCallPrimaryFirst(call, idbv, lsv, fb, dbst, fails, readFails, writeFails) ==
  LET p == PrimaryCall(call, idbv, fails \/ dbst = "failed")
      r == FallbackCall(call, lsv, readFails, writeFails)
  IN IF p.ok
     THEN [idb |-> p.idb, ls |-> lsv, useFallback |-> fb, ok |-> TRUE, val |-> p.val]
     ELSE [idb |-> idbv, ls |-> r.ls, useFallback |-> TRUE, ok |-> r.ok, val |-> r.val]

\* One method of DatabaseService run to its end (lines 234-339): what it
\* leaves in the two stores and in useFallback, whether it returned (ok) and
\* what (val; a single record or none for getShiftById).  fb and dbst are
\* useFallback and the state of the initialization when the call is made.
serviceCall(call, idbv, lsv, fb, dbst, fails, readFails, writeFails) ==
  LET p == PrimaryCall(call, idbv, fails \/ dbst = "failed")
      r == FallbackCall(call, lsv, readFails, writeFails)
  IN IF fb
     THEN [idb |-> idbv, ls |-> r.ls, useFallback |-> TRUE, ok |-> r.ok, val |-> r.val]
     ELSE IF p.ok
     THEN [idb |-> p.idb, ls |-> lsv, useFallback |-> FALSE, ok |-> TRUE, val |-> p.val]
     ELSE IF caught(call, dbst)
     THEN [idb |-> idbv, ls |-> r.ls, useFallback |-> TRUE, ok |-> r.ok, val |-> r.val]
     ELSE [idb |-> idbv, ls |-> lsv, useFallback |-> FALSE, ok |-> FALSE, val |-> <<>>]

\* ---- App.tsx: what each handler computes before it persists ----
\* A status change that resets the times on every transition to active.
statusChangedResetting(shift, status, t) ==
  IF status = "active"
  THEN [shift EXCEPT !.status = status, !.startTime = t, !.endTime = t + shift.duration]
  ELSE [shift EXCEPT !.status = status]

\* handleStatusChange, lines 123-138
statusChanged(shift, status, t) ==
  IF status = "active" /\ shift.status = "scheduled"
  THEN [shift EXCEPT !.status = status, !.startTime = t, !.endTime = t + shift.duration]
  ELSE [shift EXCEPT !.status = status]

\* handleStatusChange, lines 123-138: the map over the collection
statusChangeShifts(snap, id, status, t) ==
  [i \in 1..Len(snap) |-> IF snap[i].id = id THEN statusChanged(snap[i], status, t)
                          ELSE snap[i]]

\* A drag that makes the dragged shift and the drop target change places.
movedShiftsSwapping(snap, activeId, overId) ==
  LET oldIndex == findIndex(snap, activeId, 1)
      newIndex == findIndex(snap, overId, 1)
  IN [i \in 1..Len(snap) |-> IF i = oldIndex THEN snap[newIndex]
                             ELSE IF i = newIndex THEN snap[oldIndex]
                             ELSE snap[i]]

\* handleDragEnd, lines 165-170
movedShifts(snap, activeId, overId) ==
  LET oldIndex == findIndex(snap, activeId, 1)
      newIndex == findIndex(snap, overId, 1)
  IN spliceIn(spliceOut(snap, oldIndex), newIndex, snap[oldIndex])

\* handleDragEnd, lines 173-185: each shift after the first starts at the end
\* time its predecessor has in newShifts, the list before recalculation
recalculated(newShifts, index) ==
  IF index = 1 THEN newShifts[index]
  ELSE LET newStartTime == newShifts[index - 1].endTime
       IN [newShifts[index] EXCEPT !.startTime = newStartTime,
                                   !.endTime = newStartTime + newShifts[index].duration]

dragEndShifts(snap, activeId, overId) ==
  LET newShifts == movedShifts(snap, activeId, overId)
  IN [index \in 1..Len(newShifts) |-> recalculated(newShifts, index)]

\* checkCompletedShifts, line 55
expired(shift, t) == shift.status = "active" /\ shift.endTime <= t

\* checkCompletedShifts, lines 54-63: the first pass
completedShifts(snap, t) ==
  [i \in 1..Len(snap) |-> IF expired(snap[i], t) THEN [snap[i] EXCEPT !.status = "completed"]
                          ELSE snap[i]]

\* A sweep that also counts a scheduled shift as a change.
hasChangesOrScheduled(snap, t) ==
  \E i \in 1..Len(snap) : expired(snap[i], t) \/ snap[i].status = "scheduled"

hasChanges(snap, t) == \E i \in 1..Len(snap) : expired(snap[i], t)

RECURSIVE firstScheduled(_, _, _)
\* nextScheduledShift: the first shift the pass meets that is scheduled and is
\* not completed by the pass; 0 when there is none (null)
firstScheduled(snap, t, i) ==
  IF i > Len(snap) THEN 0
  ELSE IF ~expired(snap[i], t) /\ snap[i].status = "scheduled" THEN snap[i].id
  ELSE firstScheduled(snap, t, i + 1)

\* An activation that recomputes the end but keeps the start.
activatedKeepingStart(shift, t) ==
  [shift EXCEPT !.status = "active", !.endTime = t + shift.duration]

\* checkCompletedShifts, lines 66-78: the second pass
activated(shift, t) ==
  [shift EXCEPT !.status = "active", !.startTime = t, !.endTime = t + shift.duration]

\* A sweep that activates every scheduled shift it met.
sweepShiftsActivatingAll(snap, t) ==
  LET updatedShifts == completedShifts(snap, t)
  IN IF hasChanges(snap, t)
     THEN [i \in 1..Len(updatedShifts) |->
             IF updatedShifts[i].status = "scheduled"
             THEN activated(updatedShifts[i], t) ELSE updatedShifts[i]]
     ELSE updatedShifts

sweepShifts(snap, t) ==
  LET updatedShifts == completedShifts(snap, t)
      nextScheduledShift == firstScheduled(snap, t, 1)
  IN IF hasChanges(snap, t) /\ nextScheduledShift # 0
     THEN [i \in 1..Len(updatedShifts) |->
             IF updatedShifts[i].id = nextScheduledShift
             THEN activated(updatedShifts[i], t) ELSE updatedShifts[i]]
     ELSE updatedShifts

\* handleCreateShift, lines 106-112, on what ControlPanel.handleCreate submits
\* (lines 31-40): setHours adds the integral part of the entered duration, and
\* the duration is then derived again from the two times.  halves is the
\* entered duration in half hours.
hoursAdded(halves) == halves \div 2

newShiftFor(id, particulars, notes, startTime, halves) ==
  LET endTime == startTime + hoursAdded(halves)
  IN [id |-> id, particulars |-> particulars, startTime |-> startTime,
      endTime |-> endTime, notes |-> notes, status |-> "scheduled",
      duration |-> endTime - startTime]

\* A move that leaves the end where it was.
movedToKeepingEnd(shift, newStartTime) == [shift EXCEPT !.startTime = newStartTime]

\* onMove, lines 258-269
movedTo(shift, newStartTime) ==
  [shift EXCEPT !.startTime = newStartTime, !.endTime = newStartTime + shift.duration]

\* ---- App.tsx: a handler in flight ----
\* The closure of one handler run: what it was called with (id, over, to, s),
\* the collection and the instant it read (snap, at; empty for the handlers
\* that read neither), the list it will set (res) and the persistence calls it
\* still has to make (todo).
Op(kind, id, over, to, s, snap, at, res, todo) ==
  [kind |-> kind, id |-> id, over |-> over, to |-> to, s |-> s,
   snap |-> snap, at |-> at, res |-> res, todo |-> todo]

putAll(seq) == [i \in 1..Len(seq) |-> Call("put", seq[i])]

\* The argument of setShifts once every call of the handler has succeeded.
committed(op, val, prev) ==
  CASE op.kind = "load"   -> val
    [] op.kind = "create" -> Append(prev, op.s)
    [] op.kind = "delete" -> filterOut(prev, op.id)
    [] op.kind = "update" ->
         [i \in 1..Len(prev) |-> IF prev[i].id = op.s.id THEN op.s ELSE prev[i]]
    [] op.kind \in {"status", "reorder", "sweep"} -> op.res

\* A handler that calls setShifts whether or not its calls succeeded.
shiftsAfterAnyway(op, ok, val, prev) == committed(op, val, prev)

\* What a handler sets once its calls ended: setShifts after the last call
\* succeeded, nothing but a log line (and setError in loadShifts) after one raised.
shiftsAfter(op, ok, val, prev) == IF ok THEN committed(op, val, prev) ELSE prev

\* The rows App renders: one ShiftStrip per shift (key = id) unless the loading
\* or the error page is shown.  A row that stays mounted keeps its state, a new
\* row starts from useState(shift) / useState(false).
rowIds(newShifts, loading, err) ==
  IF loading \/ err # "none" THEN {} ELSE IdsOf(newShifts)

rowsEdited(newShifts, loading, err, edited) ==
  [id \in rowIds(newShifts, loading, err) |->
     IF id \in DOMAIN edited THEN edited[id] ELSE find(newShifts, id)]

rowsEditing(newShifts, loading, err, editing) ==
  [id \in rowIds(newShifts, loading, err) |->
     IF id \in DOMAIN editing THEN editing[id] ELSE FALSE]

\* A handler whose state updates are taken whether or not App is mounted.
FinishUnmounted(op, ok, val, editing) ==
  LET newShifts  == shiftsAfter(op, ok, val, shifts)
      newLoading == IF op.kind = "load" THEN FALSE ELSE isLoading
      newError   == IF op.kind = "load" /\ ~ok THEN "Failed to load shifts" ELSE error
  IN /\ shifts' = newShifts
     /\ isLoading' = newLoading
     /\ error' = newError
     /\ editedShift' = editedShift
     /\ isEditing' = editing

\* The end of a handler run: the state updates after its last await.  A
\* component that is no longer mounted takes no state update.
Finish(op, ok, val, editing) ==
  LET live       == mounted = "yes"
      newShifts  == IF live THEN shiftsAfter(op, ok, val, shifts) ELSE shifts
      newLoading == IF live /\ op.kind = "load" THEN FALSE ELSE isLoading
      newError   == IF live /\ op.kind = "load" /\ ~ok THEN "Failed to load shifts"
                    ELSE error
  IN /\ shifts' = newShifts
     /\ isLoading' = newLoading
     /\ error' = newError
     /\ editedShift' = IF live THEN rowsEdited(newShifts, newLoading, newError, editedShift)
                       ELSE editedShift
     /\ isEditing' = IF live THEN rowsEditing(newShifts, newLoading, newError, editing)
                     ELSE editing

\* The sweep effect depends on [shifts] (line 103): a setShifts clears the
\* interval and sets a new one, whose second starts over.
rearmed(set) == IF set /\ mounted = "yes" THEN 0 ELSE elapsed

\* A handler is called.  With the fallback active all its calls complete in
\* the calling task (the readAt-th of them fails to read, the writeAt-th to
\* write; 0: none); otherwise its first call is an IndexedDB request and the
\* handler is suspended.  A handler without calls sets its result at once.
Begin(op, editing, readAt, writeAt) ==
  IF useFallback \/ op.todo = <<>>
  THEN LET r == RunFallback(op.todo, ls, readAt, writeAt, 1)
       IN /\ readAt <= Len(op.todo) /\ writeAt <= Len(op.todo)
          /\ ls' = r.ls
          /\ Finish(op, r.ok, r.val, editing)
          /\ elapsed' = rearmed(r.ok \/ op.kind = "sweep")
          /\ UNCHANGED <<idb, dbState, useFallback, ops>>
  ELSE /\ readAt = 0 /\ writeAt = 0
       /\ Len(ops) < MaxInFlight
       /\ ops' = Append(ops, op)
       /\ isEditing' = editing
       /\ elapsed' = rearmed(op.kind = "sweep")
       /\ UNCHANGED <<shifts, isLoading, error, editedShift, idb, ls, dbState, useFallback>>

\* The IndexedDB request of the k-th suspended handler settles.  On success the
\* handler goes on to its next call; on a rejection the method catches, the
\* service switches to the fallback and repeats the call there; a rejection it
\* does not catch raises in the handler.
ResolveCall(k, fails, readAt, writeAt) ==
  /\ k \in 1..Len(ops)
  /\ dbState # "pending"
  /\ LET op   == ops[k]
         p    == PrimaryCall(Head(op.todo), idb, fails \/ dbState = "failed")
         rest == IF p.ok THEN Tail(op.todo) ELSE op.todo
         gone == spliceOut(ops, k)
     IN /\ idb' = p.idb
        /\ useFallback' = (useFallback \/ (~p.ok /\ caught(Head(op.todo), dbState)))
        /\ UNCHANGED <<dbState, mounted, now, nextId, outcome>>
        /\ IF ~p.ok /\ ~caught(Head(op.todo), dbState)
           THEN /\ readAt = 0 /\ writeAt = 0
                /\ ops' = gone
                /\ Finish(op, FALSE, <<>>, isEditing)
                /\ UNCHANGED <<ls, elapsed>>
           ELSE IF rest = <<>>
           THEN /\ readAt = 0 /\ writeAt = 0
                /\ ops' = gone
                /\ Finish(op, TRUE, p.val, isEditing)
                /\ elapsed' = rearmed(TRUE)
                /\ UNCHANGED ls
           ELSE IF useFallback'
           THEN LET r == RunFallback(rest, ls, readAt, writeAt, 1)
                IN /\ readAt <= Len(rest) /\ writeAt <= Len(rest)
                   /\ ops' = gone
                   /\ ls' = r.ls
                   /\ Finish(op, r.ok, r.val, isEditing)
                   /\ elapsed' = rearmed(r.ok)
           ELSE /\ readAt = 0 /\ writeAt = 0
                /\ ops' = [ops EXCEPT ![k].todo = rest]
                /\ UNCHANGED <<shifts, isLoading, error, editedShift, isEditing, ls,
                               elapsed>>

\* ---- initial state: dbService constructed, App not yet mounted ----
Init ==
  /\ shifts = <<>>
  /\ isLoading = TRUE
  /\ error = "none"
  /\ mounted = "no"
  /\ editedShift = <<>>
  /\ isEditing = <<>>
  /\ idb = <<>>
  /\ ls = <<>>
  /\ nextId = 1
  \* initializeDB, lines 200-204: without window.indexedDB the fallback is
  \* chosen in the constructor; otherwise openDB is pending
  /\ \/ dbState = "pending" /\ useFallback = FALSE
     \/ dbState = "failed" /\ useFallback = TRUE
  /\ ops = <<>>
  /\ now = 0
  /\ outcome = [m |-> "none", id |-> 0, held |-> FALSE, ok |-> TRUE, val |-> <<>>]
  /\ elapsed = 0

\* ---- actions ----
\* The main page is shown: neither the loading nor the error page.
Shown == mounted = "yes" /\ ~isLoading /\ error = "none"

\* initializeDB, lines 206-216: openDB settles
initializeDB(opens) ==
  /\ dbState = "pending"
  /\ dbState' = IF opens THEN "open" ELSE "failed"
  /\ useFallback' = (useFallback \/ ~opens)
  /\ UNCHANGED <<shifts, isLoading, error, mounted, editedShift, isEditing, idb, ls,
                 ops, now, nextId, outcome, elapsed>>

\* A method of the exported dbService is called from outside App (another
\* module, an earlier use of the page) before App mounts, and runs to its end.
\* outcome keeps the method and the id it was called with, whether the store
\* that served it held that id when it was called (held), whether it returned
\* (ok) and what (val).
dbCall(call, fails, readFails, writeFails) ==
  /\ mounted = "no"
  /\ dbState # "pending"
  /\ LET r == serviceCall(call, idb, ls, useFallback, dbState, fails, readFails, writeFails)
     IN /\ Len(r.ls) <= MaxShifts
        /\ idb' = r.idb
        /\ ls' = r.ls
        /\ useFallback' = r.useFallback
        /\ outcome' = [m |-> call.m, id |-> call.s.id,
                       held |-> call.s.id \in storedIds(idb, ls, r.useFallback),
                       ok |-> r.ok, val |-> r.val]
  /\ UNCHANGED <<shifts, isLoading, error, mounted, editedShift, isEditing, dbState, ops,
                 now, nextId, elapsed>>

\* loadShifts, line 24
loadOp == Op("load", 0, 0, "", NoShift, <<>>, 0, <<>>, <<Call("getAll", NoShift)>>)

\* App mounts: the load effect runs loadShifts (lines 17-45)
loadShifts(readAt) ==
  /\ mounted = "no"
  /\ mounted' = "yes"
  /\ elapsed' = 0
  /\ UNCHANGED <<now, nextId, outcome>>
  /\ LET op == loadOp
     IN IF useFallback
        THEN LET r == RunFallback(op.todo, ls, readAt, 0, 1)
             IN /\ shifts' = r.val
                /\ isLoading' = FALSE
                /\ error' = "none"
                /\ editedShift' = rowsEdited(r.val, FALSE, "none", editedShift)
                /\ isEditing' = rowsEditing(r.val, FALSE, "none", isEditing)
                /\ UNCHANGED <<idb, ls, dbState, useFallback, ops>>
        ELSE /\ readAt = 0
             /\ ops' = Append(ops, op)
             /\ UNCHANGED <<shifts, isLoading, error, editedShift, isEditing, idb, ls,
                            dbState, useFallback>>

\* Component teardown: the load effect's cleanup and clearInterval
teardown ==
  /\ mounted = "yes"
  /\ mounted' = "gone"
  /\ editedShift' = <<>>
  /\ isEditing' = <<>>
  /\ elapsed' = 0
  /\ UNCHANGED <<shifts, isLoading, error, idb, ls, dbState, useFallback, ops, now,
                 nextId, outcome>>

\* The wall clock advances.
Tick ==
  /\ now < MaxTime
  /\ now' = now + 1
  /\ UNCHANGED <<shifts, isLoading, error, mounted, editedShift, isEditing, idb, ls,
                 dbState, useFallback, ops, nextId, outcome, elapsed>>

\* A part of the second passes for which the interval of the sweep effect is
\* set (line 101); checkCompletedShifts is called when the last part ends.
intervalElapses ==
  /\ mounted = "yes"
  /\ elapsed < Period - 1
  /\ elapsed' = elapsed + 1
  /\ UNCHANGED <<shifts, isLoading, error, mounted, editedShift, isEditing, idb, ls,
                 dbState, useFallback, ops, now, nextId, outcome>>

\* handleCreateShift, lines 107-114
createOp(newShift) ==
  Op("create", newShift.id, 0, "", newShift, <<>>, 0, <<>>, <<Call("add", newShift)>>)

\* ControlPanel.handleCreate -> handleCreateShift (lines 105-119)
handleCreateShift(particulars, notes, startTime, halves, readAt, writeAt) ==
  /\ Shown
  /\ nextId <= MaxShifts
  /\ nextId' = nextId + 1
  /\ UNCHANGED <<mounted, now, outcome>>
  /\ Begin(createOp(newShiftFor(nextId, particulars, notes, startTime, halves)),
           isEditing, readAt, writeAt)

\* The items of the ShiftStrip menu that call onStatusChange (lines 144-161)
menuOffers(shift, status) ==
  \/ status = "active" /\ shift.status \in {"scheduled", "onHold"}
  \/ status = "onHold" /\ shift.status = "active"
  \/ status = "terminated"

\* handleStatusChange, lines 123-144: only the shift with this id is persisted
statusOp(snap, id, status, t) ==
  LET updatedShifts == statusChangeShifts(snap, id, status, t)
  IN Op("status", id, 0, status, NoShift, snap, t, updatedShifts,
        putAll(SelectSeq(updatedShifts, LAMBDA s : s.id = id)))

\* handleStatusChange (lines 121-149)
handleStatusChange(id, status, readAt, writeAt) ==
  /\ Shown
  /\ id \in IdsOf(shifts)
  /\ menuOffers(find(shifts, id), status)
  /\ UNCHANGED <<mounted, now, nextId, outcome>>
  /\ Begin(statusOp(shifts, id, status, now), isEditing, readAt, writeAt)

\* handleDelete, line 153
deleteOp(id) ==
  Op("delete", id, 0, "", NoShift, <<>>, 0, <<>>,
     <<Call("delete", [NoShift EXCEPT !.id = id])>>)

\* handleDelete (lines 151-158)
handleDelete(id, readAt, writeAt) ==
  /\ Shown
  /\ id \in IdsOf(shifts)
  /\ UNCHANGED <<mounted, now, nextId, outcome>>
  /\ Begin(deleteOp(id), isEditing, readAt, writeAt)

\* handleDragEnd, lines 165-190: every shift of the new order is persisted
dragOp(snap, activeId, overId) ==
  LET updatedShifts == dragEndShifts(snap, activeId, overId)
  IN Op("reorder", activeId, overId, "", NoShift, snap, 0, updatedShifts,
        putAll(updatedShifts))

\* handleDragEnd (lines 160-196)
handleDragEnd(activeId, overId, readAt, writeAt) ==
  /\ Shown
  /\ activeId \in IdsOf(shifts) /\ overId \in IdsOf(shifts)
  /\ activeId # overId
  /\ UNCHANGED <<mounted, now, nextId, outcome>>
  /\ \A i \in 1..Len(shifts) : dragOp(shifts, activeId, overId).res[i].endTime <= MaxEnd
  /\ Begin(dragOp(shifts, activeId, overId), isEditing, readAt, writeAt)

\* handleUpdate, line 200
updateOp(updatedShift) ==
  Op("update", updatedShift.id, 0, "", updatedShift, <<>>, 0, <<>>,
     <<Call("put", updatedShift)>>)

\* handleUpdate (lines 198-209)
handleUpdate(updatedShift, editing, readAt, writeAt) ==
  Begin(updateOp(updatedShift), editing, readAt, writeAt)

\* ShiftStrip.handleSave (lines 42-45): the row's editedShift is handed to onUpdate
handleSave(id, readAt, writeAt) ==
  /\ Shown
  /\ id \in DOMAIN isEditing /\ isEditing[id]
  /\ UNCHANGED <<mounted, now, nextId, outcome>>
  /\ handleUpdate(editedShift[id], [isEditing EXCEPT ![id] = FALSE], readAt, writeAt)

\* The onMove callback App passes to each row (lines 258-269)
onMove(id, newStartTime, readAt, writeAt) ==
  /\ Shown
  /\ id \in IdsOf(shifts)
  /\ newStartTime + find(shifts, id).duration <= MaxEnd
  /\ UNCHANGED <<mounted, now, nextId, outcome>>
  /\ handleUpdate(movedTo(find(shifts, id), newStartTime), isEditing, readAt, writeAt)

\* ShiftStrip menu item Edit (line 143)
setIsEditing(id) ==
  /\ Shown
  /\ id \in DOMAIN isEditing /\ ~isEditing[id]
  /\ isEditing' = [isEditing EXCEPT ![id] = TRUE]
  /\ UNCHANGED <<shifts, isLoading, error, mounted, editedShift, idb, ls, dbState,
                 useFallback, ops, now, nextId, outcome, elapsed>>

\* ShiftStrip edit form (lines 111-125): the two text fields
setEditedShift(id, field, text) ==
  /\ Shown
  /\ id \in DOMAIN isEditing /\ isEditing[id]
  /\ editedShift' = [editedShift EXCEPT ![id] =
                       IF field = "particulars" THEN [@ EXCEPT !.particulars = text]
                       ELSE [@ EXCEPT !.notes = text]]
  /\ editedShift' # editedShift
  /\ UNCHANGED <<shifts, isLoading, error, mounted, isEditing, idb, ls, dbState,
                 useFallback, ops, now, nextId, outcome, elapsed>>

\* checkCompletedShifts, lines 80-98: every shift of the result is persisted
sweepOp(snap, t) ==
  Op("sweep", 0, 0, "", NoShift, snap, t, sweepShifts(snap, t), putAll(sweepShifts(snap, t)))

\* The interval fires checkCompletedShifts (lines 47-103)
checkCompletedShifts(readAt, writeAt) ==
  /\ mounted = "yes"
  /\ UNCHANGED <<mounted, now, nextId, outcome>>
  /\ IF hasChanges(shifts, now)
     THEN Begin(sweepOp(shifts, now), isEditing, readAt, writeAt)
     ELSE /\ readAt = 0 /\ writeAt = 0
          /\ elapsed' = 0
          /\ UNCHANGED <<shifts, isLoading, error, editedShift, isEditing, idb, ls,
                         dbState, useFallback, ops>>

\* ---- the whole program ----
\* Persistence failures the environment may inject into one handler run.
ReadAts  == 0..MaxShifts
WriteAts == 0..MaxShifts

Starts == 0..MaxStart
Halves == 0..(2 * MaxDur)

Next ==
  \/ \E opens \in BOOLEAN : initializeDB(opens)
  \/ \E r \in ReadAts : loadShifts(r)
  \/ teardown
  \/ Tick
  \/ intervalElapses
  \/ \E k \in 1..MaxInFlight, fails \in BOOLEAN, r \in ReadAts, w \in WriteAts :
       ResolveCall(k, fails, r, w)
  \/ \E p \in Texts, n \in Texts, st \in Starts, halves \in Halves, r \in ReadAts,
        w \in WriteAts : handleCreateShift(p, n, st, halves, r, w)
  \/ \E id \in Ids, status \in Statuses, r \in ReadAts, w \in WriteAts :
       handleStatusChange(id, status, r, w)
  \/ \E id \in Ids, r \in ReadAts, w \in WriteAts : handleDelete(id, r, w)
  \/ \E activeId, overId \in Ids, r \in ReadAts, w \in WriteAts :
       handleDragEnd(activeId, overId, r, w)
  \/ \E id \in Ids, r \in ReadAts, w \in WriteAts : handleSave(id, r, w)
  \/ \E id \in Ids, st \in Starts, r \in ReadAts, w \in WriteAts : onMove(id, st, r, w)
  \/ \E id \in Ids : setIsEditing(id)
  \/ \E id \in Ids, field \in {"particulars", "notes"}, text \in Texts :
       setEditedShift(id, field, text)
  \/ \E r \in ReadAts, w \in WriteAts : checkCompletedShifts(r, w)

Spec == Init /\ [][Next]_vars

\* ---- the program under restricted use ----
\* No handler is suspended: the user and the timer wait for the run before.
Idle == ops = <<>>

\* The lifecycle: every handler of App.tsx but the row's edit form, one run at
\* a time, up to FewShifts shifts, IndexedDB either absent, failing to open or healthy, and
\* localStorage writes that may throw.
NextLifecycle ==
  \/ \E opens \in BOOLEAN : initializeDB(opens)
  \/ loadShifts(0)
  \/ Tick
  \/ \E k \in 1..MaxInFlight : ResolveCall(k, FALSE, 0, 0)
  \/ \E st \in Starts, halves \in Halves, w \in WriteAts :
       Idle /\ nextId <= FewShifts /\ handleCreateShift("a", "a", st, halves, 0, w)
  \/ \E id \in Ids, status \in Statuses, w \in WriteAts :
       Idle /\ handleStatusChange(id, status, 0, w)
  \/ \E id \in Ids, w \in WriteAts : Idle /\ handleDelete(id, 0, w)
  \/ \E activeId, overId \in Ids, w \in WriteAts :
       Idle /\ handleDragEnd(activeId, overId, 0, w)
  \/ \E id \in Ids, st \in Starts, w \in WriteAts : Idle /\ onMove(id, st, 0, w)
  \/ \E w \in WriteAts : Idle /\ checkCompletedShifts(0, w)

SpecLifecycle == Init /\ [][NextLifecycle]_vars

\* The browser has no IndexedDB: every handler completes in the task that
\* calls it.
InitFallback == Init /\ useFallback

\* Timing: every handler that sets a start or an end time, the stale save of a
\* row included, up to FewShifts shifts, without IndexedDB and without storage
\* failures.
NextTimes ==
  \/ loadShifts(0)
  \/ Tick
  \/ \E st \in Starts, halves \in Halves :
       nextId <= FewShifts /\ handleCreateShift("a", "a", st, halves, 0, 0)
  \/ \E id \in Ids, status \in Statuses : handleStatusChange(id, status, 0, 0)
  \/ \E id \in Ids : handleDelete(id, 0, 0)
  \/ \E activeId, overId \in Ids : handleDragEnd(activeId, overId, 0, 0)
  \/ \E id \in Ids, st \in Starts : onMove(id, st, 0, 0)
  \/ \E id \in Ids : setIsEditing(id)
  \/ \E id \in Ids : handleSave(id, 0, 0)
  \/ checkCompletedShifts(0, 0)

SpecTimes == InitFallback /\ [][NextTimes]_vars

\* Editing: the rows' edit forms next to create, status change, delete and
\* the sweep, up to FewShifts shifts, without IndexedDB and without storage
\* failures.
NextEdit ==
  \/ loadShifts(0)
  \/ Tick
  \/ \E st \in Starts, halves \in Halves :
       nextId <= FewShifts /\ handleCreateShift("a", "a", st, halves, 0, 0)
  \/ \E id \in Ids, status \in Statuses : handleStatusChange(id, status, 0, 0)
  \/ \E id \in Ids : handleDelete(id, 0, 0)
  \/ \E id \in Ids : setIsEditing(id)
  \/ \E id \in Ids, field \in {"particulars", "notes"} : setEditedShift(id, field, "b")
  \/ \E id \in Ids : handleSave(id, 0, 0)
  \/ checkCompletedShifts(0, 0)

SpecEdit == InitFallback /\ [][NextEdit]_vars

\* The store: dbService is used directly, with requests that are rejected and
\* a localStorage that fails to read or to write, and then App mounts and loads.
Recs ==
  {[newShiftFor(id, "a", "a", st, 2 * MaxDur) EXCEPT !.status = status] :
     id \in 1..FewShifts, st \in Starts, status \in {"scheduled", "active"}}

StoreCalls ==
  {Call(m, s) : m \in {"add", "put"}, s \in Recs}
    \cup {Call(m, [NoShift EXCEPT !.id = id]) : m \in {"delete", "get"}, id \in 1..FewShifts}
    \cup {Call("getAll", NoShift)}
    \cup {Call("byStatus", [NoShift EXCEPT !.status = status]) :
            status \in {"scheduled", "active"}}
    \cup {Call("byRange", [NoShift EXCEPT !.startTime = 0, !.endTime = MaxEnd])}

NextStore ==
  \/ \E opens \in BOOLEAN : initializeDB(opens)
  \/ \E call \in StoreCalls, fails, readFails, writeFails \in BOOLEAN :
       dbCall(call, fails, readFails, writeFails)
  \/ \E r \in 0..1 : loadShifts(r)
  \/ \E k \in 1..MaxInFlight, fails \in BOOLEAN, r \in 0..1 : ResolveCall(k, fails, r, 0)

SpecStore == Init /\ [][NextStore]_vars

\* Reordering: up to MaxShifts shifts are created and dragged, without
\* IndexedDB and without storage failures.
NextReorder ==
  \/ loadShifts(0)
  \/ \E st \in Starts, halves \in Halves : handleCreateShift("a", "a", st, halves, 0, 0)
  \/ \E id \in Ids : handleDelete(id, 0, 0)
  \/ \E activeId, overId \in Ids : handleDragEnd(activeId, overId, 0, 0)

SpecReorder == InitFallback /\ [][NextReorder]_vars

\* ---- failure atomicity ----
\* The handler run that would make the calls of op raises when writeAt is the
\* call at which localStorage.setItem throws.
Raises(op, writeAt) == useFallback /\ ~RunFallback(op.todo, ls, 0, writeAt, 1).ok

\* A step in which a handler called from the view makes its calls and one of
\* them raises.
RaisedCall(w) ==
  \/ \E st \in Starts, halves \in Halves :
       /\ handleCreateShift("a", "a", st, halves, 0, w)
       /\ Raises(createOp(newShiftFor(nextId, "a", "a", st, halves)), w)
  \/ \E id \in Ids, status \in Statuses :
       handleStatusChange(id, status, 0, w) /\ Raises(statusOp(shifts, id, status, now), w)
  \/ \E id \in Ids : handleDelete(id, 0, w) /\ Raises(deleteOp(id), w)
  \/ \E activeId, overId \in Ids :
       handleDragEnd(activeId, overId, 0, w) /\ Raises(dragOp(shifts, activeId, overId), w)
  \/ \E id \in Ids, st \in Starts :
       onMove(id, st, 0, w) /\ Raises(updateOp(movedTo(find(shifts, id), st)), w)

\* A step in which a handler makes its calls and one of them raises.
RaisedRun(w) ==
  \/ RaisedCall(w)
  \/ checkCompletedShifts(0, w) /\ Raises(sweepOp(shifts, now), w)

\* A step in which a call of a suspended handler succeeds and the handler has
\* more calls to make.
CallBeforeLast(k) ==
  /\ k \in 1..Len(ops)
  /\ Len(ops[k].todo) > 1
  /\ ResolveCall(k, FALSE, 0, 0)
  /\ ~useFallback'

\* C1: a create, update, delete, status change, reorder or sweep one of whose
\* persistence calls raises leaves the in-memory collection as it was, and the
\* collection is not written while calls of a reorder or sweep batch remain.
C1_FailureKeepsMemory ==
  [][ /\ (\E w \in 1..MaxShifts : RaisedRun(w)) => shifts' = shifts
      /\ (\E k \in 1..MaxInFlight : CallBeforeLast(k)) => shifts' = shifts ]_vars

\* C1 witness: a batch has failed partway: the store holds a record the batch
\* wrote and the collection still holds the record as it was before.
C1_Witness ==
  /\ useFallback /\ ops = <<>>
  /\ \E i \in 1..Len(ls), j \in 1..Len(shifts) :
       ls[i].id = shifts[j].id /\ ls[i] # shifts[j]

\* ---- reorder ----
\* The times of a sequence are chained: each shift after the first starts at
\* the end of the one before it and ends its duration later.
Chained(seq) ==
  \A i \in 2..Len(seq) :
    /\ seq[i].startTime = seq[i - 1].endTime
    /\ seq[i].endTime = seq[i].startTime + seq[i].duration

\* C2: after a reorder that completes, the first shift of the resulting
\* sequence keeps its times and every later shift starts at the end time its
\* predecessor has in that same sequence and ends its duration later.
C2_ReorderChains ==
  [][ \A activeId, overId \in Ids :
        handleDragEnd(activeId, overId, 0, 0) =>
          /\ shifts'[1].startTime = find(shifts, shifts'[1].id).startTime
          /\ shifts'[1].endTime = find(shifts, shifts'[1].id).endTime
          /\ Chained(shifts') ]_vars

\* ---- the completion sweep ----
\* What one sweep at instant t makes of the collection before.
SweptAsClaimed(before, after, t) ==
  LET due(i)    == before[i].status = "active" /\ before[i].endTime <= t
      anyDue    == \E i \in 1..Len(before) : due(i)
      scheduled == {i \in 1..Len(before) : before[i].status = "scheduled"}
      isFirst(i) == i \in scheduled /\ \A j \in scheduled : i <= j
  IN /\ Len(after) = Len(before)
     /\ \A i \in 1..Len(before) :
          after[i] = IF due(i) THEN [before[i] EXCEPT !.status = "completed"]
                     ELSE IF anyDue /\ isFirst(i)
                     THEN [before[i] EXCEPT !.status = "active", !.startTime = t,
                                            !.endTime = t + before[i].duration]
                     ELSE before[i]

\* A step in which the k-th suspended handler, of the given kind, sets its
\* result after its last call.
Completes(k, kind) ==
  /\ k \in 1..Len(ops)
  /\ ops[k].kind = kind
  /\ mounted = "yes"
  /\ ResolveCall(k, FALSE, 0, 0)
  /\ Len(ops') < Len(ops)

StatusChangedAsClaimed(before, after, id, status, t) ==
  LET b == find(before, id)
      a == find(after, id)
  IN IF status = "active" /\ b.status = "scheduled"
     THEN a = [b EXCEPT !.status = "active", !.startTime = t, !.endTime = t + b.duration]
     ELSE a = [b EXCEPT !.status = status]

\* C4: a change to active of a scheduled shift at time T sets status active,
\* startTime T and endTime T + duration; a change from any other status or to
\* any other status changes the status alone.
C4_StatusChangeResult ==
  [][ /\ \A id \in Ids, status \in Statuses :
           (handleStatusChange(id, status, 0, 0) /\ Len(ops') = Len(ops)) =>
             StatusChangedAsClaimed(shifts, shifts', id, status, now)
      /\ \A k \in 1..MaxInFlight :
           Completes(k, "status") =>
             StatusChangedAsClaimed(ops[k].snap, shifts', ops[k].id, ops[k].to, ops[k].at)
    ]_vars

\* C4 witness: the only shift ever created is active from the current
\* instant, later than any start the create dialog submits: it was activated
\* by hand, the sweep activates only next to a shift it completes.
C4_Witness ==
  /\ nextId = 2 /\ Len(shifts) = 1
  /\ shifts[1].status = "active"
  /\ now > MaxStart
  /\ shifts[1].startTime = now
  /\ shifts[1].duration > 0
  /\ shifts[1].endTime = now + shifts[1].duration

\* ---- lifecycle invariants ----
\* C5: at most one shift of the in-memory collection is active.
C5_AtMostOneActive ==
  Cardinality({i \in 1..Len(shifts) : shifts[i].status = "active"}) <= 1

\* C6: a shift that is completed or terminated keeps that status for as long
\* as it is in the collection.
C6_TerminalStays ==
  [][ \A i \in 1..Len(shifts), j \in 1..Len(shifts') :
        (shifts[i].status \in {"completed", "terminated"} /\ shifts'[j].id = shifts[i].id)
          => shifts'[j].status = shifts[i].status ]_vars

\* C7: a shift that is active, onHold, completed or terminated is never
\* scheduled again.
C7_NeverScheduledAgain ==
  [][ \A i \in 1..Len(shifts), j \in 1..Len(shifts') :
        (shifts[i].status # "scheduled" /\ shifts'[j].id = shifts[i].id)
          => shifts'[j].status # "scheduled" ]_vars

\* ---- timing ----
\* C8: every shift of the in-memory collection ends after it starts.
C8_EndsAfterStart ==
  \A i \in 1..Len(shifts) : shifts[i].endTime > shifts[i].startTime

\* C9: the duration of every shift of the in-memory collection is its end time
\* minus its start time, in hours.
C9_DurationIsSpan ==
  \A i \in 1..Len(shifts) : shifts[i].duration = shifts[i].endTime - shifts[i].startTime

\* C9 witness: a shift of positive duration whose times were set anew (it
\* starts later than any start the create dialog submits) next to another.
C9_Witness ==
  \E i, j \in 1..Len(shifts) :
    /\ i # j
    /\ shifts[i].startTime > MaxStart
    /\ shifts[i].duration > 0
    /\ shifts[i].endTime = shifts[i].startTime + shifts[i].duration

\* ---- saving an edit ----
\* Two records agree in everything but particulars and notes.
SameButText(b, a) ==
  /\ a.startTime = b.startTime
  /\ a.endTime = b.endTime
  /\ a.duration = b.duration
  /\ a.status = b.status

\* C10: saving a row's edit leaves the shift's startTime, endTime, duration
\* and status as they were, in the in-memory collection and in the store.
C10_SaveKeepsTimingAndStatus ==
  [][ \A id \in Ids :
        handleSave(id, 0, 0) =>
          /\ SameButText(find(shifts, id), find(shifts', id))
          /\ id \in IdsOf(ls) => SameButText(find(ls, id), find(ls', id)) ]_vars

\* ---- memory and store ----
\* The records of the store that serves the calls.
activeRecords ==
  IF useFallback THEN {ls[i] : i \in 1..Len(ls)} ELSE {idb[k] : k \in DOMAIN idb}

\* C11: whenever no operation is in flight, the records of the active store
\* are exactly the shifts of the in-memory collection.
C11_StoreMatchesMemory ==
  ops = <<>> =>
    /\ activeRecords = {shifts[i] : i \in 1..Len(shifts)}
    /\ useFallback => Len(ls) = Len(shifts)

\* ---- the store ----
\* The store has settled its initialization and calls are served.
Serving == dbState # "pending"

\* C12: a primary operation that fails while the fallback is not active and
\* localStorage works does not raise: the service switches to the fallback
\* and returns what the same call gives there.
C12_PrimaryFailureFallsBack ==
  (Serving /\ ~useFallback) =>
    \A call \in StoreCalls :
      LET r == serviceCall(call, idb, ls, useFallback, dbState, TRUE, FALSE, FALSE)
          f == FallbackCall(call, ls, FALSE, FALSE)
      IN r.ok /\ r.useFallback /\ r.val = f.val /\ r.ls = f.ls

\* In this state no call touches IndexedDB: whether or not a request would be
\* rejected, every call leaves idb as it is and gives what the fallback gives.
PrimaryUnused ==
  \A call \in StoreCalls, fails, readFails, writeFails \in BOOLEAN :
    LET r == serviceCall(call, idb, ls, useFallback, dbState, fails, readFails, writeFails)
        f == FallbackCall(call, ls, readFails, writeFails)
    IN r.idb = idb /\ r.useFallback /\ r.ok = f.ok /\ r.val = f.val /\ r.ls = f.ls

\* In this state every call is served by one store: it writes to at most one.
OneStoreServes ==
  \A call \in StoreCalls, fails, readFails, writeFails \in BOOLEAN :
    LET r == serviceCall(call, idb, ls, useFallback, dbState, fails, readFails, writeFails)
    IN r.idb = idb \/ r.ls = ls

\* C13: once useFallback is true it stays true, from then on no call goes to
\* IndexedDB and no handler is suspended on a new request; at any time one
\* store serves a call.
C13_FallbackIsOneWay ==
  /\ [](Serving => OneStoreServes)
  /\ [](useFallback => PrimaryUnused)
  /\ [][useFallback => (useFallback' /\ Len(ops') <= Len(ops))]_vars

\* C13 witness: the service switched after IndexedDB had opened and taken
\* records, and the fallback has served writes since.
C13_Witness ==
  /\ useFallback /\ dbState = "open"
  /\ idb # <<>> /\ ls # <<>>
  /\ outcome.ok

\* The call reaches localStorage.setItem: createShift and deleteShift always,
\* updateShift when the list read holds the id.
writes(call, lsv, readFails) ==
  \/ call.m \in {"add", "delete"}
  \/ call.m = "put" /\ call.s.id \in IdsOf(fallbackGetAllShifts(lsv, readFails))

\* C14: with the fallback active, a call during which localStorage fails (to
\* read, or to write where the call writes) raises to its caller.
C14_FallbackFailureRaises ==
  useFallback =>
    \A call \in StoreCalls, readFails, writeFails \in BOOLEAN :
      (readFails \/ (writeFails /\ writes(call, ls, readFails))) =>
        ~serviceCall(call, idb, ls, useFallback, dbState, FALSE, readFails, writeFails).ok

\* C15: createShift with an id the active store already holds raises and
\* leaves the stored records unchanged, in either store.
C15_CreateRejectsExistingId ==
  Serving =>
    \A s \in Recs :
      s.id \in storedIds(idb, ls, useFallback) =>
        LET r == serviceCall(Call("add", s), idb, ls, useFallback, dbState,
                             FALSE, FALSE, FALSE)
        IN ~r.ok /\ r.idb = idb /\ r.ls = ls

\* C16: after updateShift(shift) returns, getShiftById(shift.id) returns the
\* shift (its times read as the instants they denote), whether or not the
\* store held the id before, in either store.
C16_UpdateUpserts ==
  Serving =>
    \A s \in Recs :
      LET r == serviceCall(Call("put", s), idb, ls, useFallback, dbState,
                           FALSE, FALSE, FALSE)
          g == serviceCall(Call("get", s), r.idb, r.ls, r.useFallback, dbState,
                           FALSE, FALSE, FALSE)
      IN r.ok => (g.ok /\ parsedAll(g.val) = <<parsed(s)>>)

\* C17: createShift(shift) of an id neither store holds, followed at once by
\* getShiftById(shift.id), returns a shift equal to the one created, in either
\* store and also when the create switched to the fallback.
C17_CreateThenGetRoundTrip ==
  Serving =>
    \A s \in Recs, fails \in BOOLEAN :
      (s.id \notin DOMAIN idb /\ s.id \notin IdsOf(ls)) =>
        LET r == serviceCall(Call("add", s), idb, ls, useFallback, dbState,
                             fails, FALSE, FALSE)
            g == serviceCall(Call("get", s), r.idb, r.ls, r.useFallback, dbState,
                             FALSE, FALSE, FALSE)
        IN r.ok => (g.ok /\ g.val = <<s>>)

\* deleteShift(id) run where localStorage works and no request is rejected,
\* on given contents of the two stores.
deleted(id, idbv, lsv, fb) ==
  serviceCall(Call("delete", [NoShift EXCEPT !.id = id]), idbv, lsv, fb, dbState,
              FALSE, FALSE, FALSE)

\* C18: deleteShift of an id the active store does not hold returns and leaves
\* the stored records unchanged, handleDelete of an id the collection does not
\* hold leaves the collection unchanged, and a second delete of the same id
\* changes nothing the first left.
C18_DeleteAbsentIsNoOp ==
  Serving =>
    \A id \in 1..FewShifts :
      LET once  == deleted(id, idb, ls, useFallback)
          twice == deleted(id, once.idb, once.ls, once.useFallback)
          gone  == shiftsAfter(deleteOp(id), TRUE, <<>>, shifts)
      IN /\ id \notin storedIds(idb, ls, useFallback) =>
              (once.ok /\ once.idb = idb /\ once.ls = ls /\ once.useFallback = useFallback)
         /\ id \notin IdsOf(shifts) => gone = shifts
         /\ once.ok /\ twice.ok /\ twice.idb = once.idb /\ twice.ls = once.ls
         /\ shiftsAfter(deleteOp(id), TRUE, <<>>, gone) = gone

\* C18 witness: the last call was a deleteShift of an id the serving store
\* did not hold, it returned, and the store holds records.
C18_Witness ==
  /\ outcome.m = "delete" /\ ~outcome.held /\ outcome.ok
  /\ activeRecords # {}
  /\ outcome.id \notin storedIds(idb, ls, useFallback)

\* ---- failures shown to the user ----
\* C19: when the startup load cannot read the stored shifts (IndexedDB is not
\* in use and reading localStorage fails), the controller ends in the error
\* state: error set, isLoading false, no shift list presented.
C19_LoadFailureShowsError ==
  [][ (useFallback /\ ls # <<>> /\ loadShifts(1)) =>
        (error' # "none" /\ ~isLoading') ]_vars

\* C20: a create, update, delete, status change or reorder that fails because
\* a store call raises with the fallback active sets the controller's error.
C20_FailureSetsError ==
  [][ (\E w \in 1..MaxShifts : RaisedCall(w)) => error' # "none" ]_vars


\* ---- handlers that overlap ----
\* IndexedDB opens and serves every request: each handler is suspended at its
\* awaits, and the user and the timer do not wait for it: shifts of the
\* largest duration are created (up to FewShifts, one at a time), activated,
\* dragged, deleted and swept, up to MaxInFlight handlers suspended at once.
InitPrimary == Init /\ ~useFallback

NextRace ==
  \/ initializeDB(TRUE)
  \/ loadShifts(0)
  \/ Tick
  \/ \E k \in 1..MaxInFlight : ResolveCall(k, FALSE, 0, 0)
  \/ Idle /\ nextId <= FewShifts /\ handleCreateShift("a", "a", 0, 2 * MaxDur, 0, 0)
  \/ \E id \in Ids : handleStatusChange(id, "active", 0, 0)
  \/ \E id \in Ids : handleDelete(id, 0, 0)
  \/ \E activeId, overId \in Ids : handleDragEnd(activeId, overId, 0, 0)
  \/ checkCompletedShifts(0, 0)

SpecRace == InitPrimary /\ [][NextRace]_vars

\* The handlers that compute their result from the collection they read when
\* they were called (the shifts of their closure) and set it after their calls.
FromSnapshot == {"status", "reorder", "sweep"}

\* C21: no sweep or user action touches the in-memory collection while another
\* is suspended between its read of the collection and its write-back: when a
\* status change, reorder or sweep sets its result, the collection is still
\* the one it read, so the write-back discards nothing committed in between.
C21_NoStaleWriteBack ==
  [][ \A k \in 1..MaxInFlight, kind \in FromSnapshot :
        Completes(k, kind) => shifts = ops[k].snap ]_vars


\* ---- teardown ----
\* The page is used before App mounts (records are put in the store), App
\* mounts and loads, shifts are created and swept, and App is unmounted at any
\* moment, with IndexedDB absent, failing to open, healthy or rejecting.
NextTeardown ==
  \/ \E opens \in BOOLEAN : initializeDB(opens)
  \/ \E s \in Recs : dbCall(Call("put", s), FALSE, FALSE, FALSE)
  \/ loadShifts(0)
  \/ teardown
  \/ Tick
  \/ \E k \in 1..MaxInFlight, fails \in BOOLEAN : ResolveCall(k, fails, 0, 0)
  \/ Idle /\ nextId <= FewShifts /\ handleCreateShift("a", "a", 0, 2 * MaxDur, 0, 0)
  \/ checkCompletedShifts(0, 0)

SpecTeardown == Init /\ [][NextTeardown]_vars

\* The sweeps among the suspended handlers.
sweepsInFlight(suspended) == SelectSeq(suspended, LAMBDA op : op.kind = "sweep")

\* C22: once the component is torn down, no step changes shifts, error or
\* isLoading, the completion of a load that was in flight included, and the
\* timer starts no sweep: no sweep joins the suspended handlers, and
\* localStorage is written only by a handler that was suspended and ends.
C22_TeardownSuppresses ==
  [][ mounted = "gone" =>
        /\ UNCHANGED <<shifts, error, isLoading>>
        /\ Len(sweepsInFlight(ops')) <= Len(sweepsInFlight(ops))
        /\ (ls' # ls => Len(ops') < Len(ops)) ]_vars

\* C22 witness: the component was torn down while its load was in flight, and
\* the load has since returned the stored records: nothing is suspended, the
\* store holds records, and the page state is still the one of the mount.
C22_Witness ==
  /\ mounted = "gone" /\ ops = <<>>
  /\ ~useFallback /\ idb # <<>>
  /\ isLoading /\ shifts = <<>> /\ error = "none"


\* ---- one activation per sweep ----
\* Sweeping up to MaxShifts shifts: IndexedDB is healthy, shifts of the largest
\* duration are created and activated by hand (several at once included) and
\* the timer fires, one handler at a time.
NextSweep ==
  \/ initializeDB(TRUE)
  \/ loadShifts(0)
  \/ Tick
  \/ \E k \in 1..MaxInFlight : ResolveCall(k, FALSE, 0, 0)
  \/ Idle /\ handleCreateShift("a", "a", 0, 2 * MaxDur, 0, 0)
  \/ \E id \in Ids : Idle /\ handleStatusChange(id, "active", 0, 0)
  \/ Idle /\ checkCompletedShifts(0, 0)

SpecSweep == InitPrimary /\ [][NextSweep]_vars

\* The positions at which a shift that was scheduled before is active after.
Activations(before, after) ==
  {i \in 1..Len(before) : before[i].status = "scheduled" /\ after[i].status = "active"}

\* The positions of before at which a sweep at t completes a shift.
Completions(before, t) ==
  {i \in 1..Len(before) : before[i].status = "active" /\ before[i].endTime <= t}

\* C23: one sweep turns at most one scheduled shift active, however many
\* active shifts it completes and however many scheduled shifts there are: so
\* for the sweep the timer would fire now on the collection, and for the
\* result of every sweep that is making its persistence calls.
C23_OneActivationPerSweep ==
  /\ Cardinality(Activations(shifts, sweepShifts(shifts, now))) <= 1
  /\ \A k \in 1..Len(ops) :
       ops[k].kind = "sweep" =>
         Cardinality(Activations(ops[k].snap, ops[k].res)) <= 1

\* C23 witness: a sweep is making its calls that completes a shift while two
\* shifts are scheduled, and its result activates one of the two.
C23_Witness ==
  \E k \in 1..Len(ops) :
    /\ ops[k].kind = "sweep"
    /\ Completions(ops[k].snap, ops[k].at) # {}
    /\ Cardinality({i \in 1..Len(ops[k].snap) : ops[k].snap[i].status = "scheduled"}) = 2
    /\ Cardinality(Activations(ops[k].snap, ops[k].res)) = 1


\* ---- a deleted shift stays deleted ----
\* The shift with this id is neither in the in-memory collection nor in the store.
Absent(id) == id \notin IdsOf(shifts) /\ id \notin storedIds(idb, ls, useFallback)

\* deleteShift(id) has succeeded: the id was handed out, its create is not
\* still making its call, and the shift is absent (in SpecRace no create
\* fails, and only deleteShift removes a record from the store).
Deleted(id) ==
  /\ id < nextId
  /\ \A k \in 1..Len(ops) : ~(ops[k].kind = "create" /\ ops[k].id = id)
  /\ Absent(id)

\* C24: once deleteShift(id) has succeeded the shift is absent from the
\* in-memory collection and from the store in every later state: it is absent
\* when the delete sets its result, and no later step of a sweep, reorder or
\* status change that read the collection before brings it back.
C24_DeletedStaysDeleted ==
  [][ \A id \in Ids :
        /\ (\E k \in 1..MaxInFlight : Completes(k, "delete") /\ ops[k].id = id) => Absent(id)'
        /\ Deleted(id) => Deleted(id)' ]_vars


\* ---- reorder: what it keeps ----
\* The ids of a sequence of shifts, in order.
idSeq(seq) == [i \in 1..Len(seq) |-> seq[i].id]

\* after is before with the shift activeId moved to the place of overId: the
\* same ids, each once; the dragged shift at the index the drop target had;
\* the other shifts in the order they had; every shift with its id, status,
\* duration, particulars and notes, and the first one with its times too.
ReorderedAsClaimed(before, after, activeId, overId) ==
  /\ Len(after) = Len(before)
  /\ \A i \in 1..Len(before) :
       Cardinality({j \in 1..Len(after) : after[j].id = before[i].id}) = 1
  /\ \E n \in 1..Len(before) : before[n].id = overId /\ after[n].id = activeId
  /\ SelectSeq(idSeq(after), LAMBDA id : id # activeId)
       = SelectSeq(idSeq(before), LAMBDA id : id # activeId)
  /\ \A j \in 1..Len(after) :
       LET b == find(before, after[j].id)
       IN /\ after[j] = [b EXCEPT !.startTime = after[j].startTime,
                                  !.endTime = after[j].endTime]
          /\ j = 1 => after[j] = b

\* C25: a reorder that succeeds sets a permutation of the collection it was
\* called on: the same ids, each once, the dragged shift at the index the drop
\* target had; id, status, duration, particulars and notes of every shift are
\* unchanged and the shift now first keeps its times as well.
C25_ReorderPermutes ==
  [][ \A activeId, overId \in Ids :
        handleDragEnd(activeId, overId, 0, 0) =>
          ReorderedAsClaimed(shifts, shifts', activeId, overId) ]_vars

\* C25 witness: the first of three shifts has been dragged onto the last: it
\* is now third and the other two have moved up in their order.
C25_Witness ==
  /\ Len(shifts) = 3
  /\ idSeq(shifts) = <<2, 3, 1>>
  /\ shifts[2].startTime = shifts[1].endTime


\* ---- a sweep with nothing to complete ----
\* No shift of the collection is active with its end at or before now.
NothingDue ==
  \A i \in 1..Len(shifts) : ~(shifts[i].status = "active" /\ shifts[i].endTime <= now)

\* C26: a sweep that finds no active shift with endTime <= now makes no
\* persistence call (neither store is written and no request is begun) and
\* leaves the in-memory collection as it is; it activates no scheduled shift,
\* whether or not a shift is active.
C26_IdleSweepDoesNothing ==
  [][ (NothingDue /\ \E w \in WriteAts : checkCompletedShifts(0, w)) =>
        UNCHANGED <<shifts, idb, ls, ops>> ]_vars

\* C26 witness: the timer is running on a collection with a scheduled shift
\* and no active one, after the clock has advanced: the sweep that fires here
\* is the sweep of the claim.
C26_Witness ==
  /\ mounted = "yes" /\ ops = <<>> /\ now > 0
  /\ NothingDue
  /\ \E i \in 1..Len(shifts) : shifts[i].status = "scheduled"
  /\ \A i \in 1..Len(shifts) : shifts[i].status # "active"


\* ---- the sweep comes round ----
\* The timer under use: without IndexedDB every persistence call completes in
\* the calling task and none fails; shifts of the largest duration are
\* created, their status is changed from the menu, they are deleted, the clock
\* advances, and checkCompletedShifts is called when the interval has run its
\* full second since it was last set.
sweepDue == elapsed = Period - 1

NextLive ==
  \/ loadShifts(0)
  \/ Tick
  \/ intervalElapses
  \/ nextId <= FewShifts /\ handleCreateShift("a", "a", 0, 2 * MaxDur, 0, 0)
  \/ \E id \in Ids, status \in Statuses : handleStatusChange(id, status, 0, 0)
  \/ \E id \in Ids : handleDelete(id, 0, 0)
  \/ sweepDue /\ checkCompletedShifts(0, 0)

\* Time advances and an interval that is left set calls its callback; the
\* user is free to act at any moment or not at all.
SpecLive ==
  /\ InitFallback /\ [][NextLive]_vars
  /\ WF_vars(Tick)
  /\ WF_vars(intervalElapses)
  /\ WF_vars(sweepDue /\ checkCompletedShifts(0, 0))

\* The shift with this id is active and its end is at or before now.
Due(id) ==
  \E i \in 1..Len(shifts) :
    shifts[i].id = id /\ shifts[i].status = "active" /\ shifts[i].endTime <= now

\* C27: with persistence calls that succeed and time that advances, every
\* shift that is active with endTime <= now is eventually no longer so: the
\* sweep completes it, unless the user first puts it on hold, terminates or
\* deletes it.
C27_DueIsCompleted == \A id \in Ids : Due(id) ~> ~Due(id)

====
